---------------------------- MODULE Spec2Model ----------------------------
(***************************************************************************)
(* A model of the constraint-propagation Sudoku solver of                  *)
(* src/sudoku/puzzle.py: the board and its cells, the relation queries,    *)
(* the four deduction techniques and the solve() loop.                     *)
(*                                                                         *)
(* A cell is its index in Sudoku.cells (row-major, 0-based).  None is      *)
(* modelled as 0 (no cell value is ever the integer 0).  A board state is  *)
(* a record [value, candidates] of two functions over the cells.           *)
(***************************************************************************)
EXTENDS Integers, Sequences, FiniteSets, TLC

VARIABLES
    size,        \* Sudoku.size: the Dimension [width, height] of a box
    seed,        \* Sudoku.seed: the list of seed characters
    value,       \* Cell.value of every cell (0 is None)
    candidates,  \* Cell.candidates of every cell
    relOrder,    \* iteration order of the set ALL_RELATIONS in this process
    fishOrder,   \* iteration order of the set {ROW, COLUMN} in this process
    cellOrder,   \* iteration order of a set of Cell objects in this process
    pc,          \* where the caller is: "ready", inside solve() or "returned"
    tix,         \* solve(): index of the next technique of the current pass
    passes,      \* solve(): the passes of "while True" begun by the current call
    changed,     \* solve(): the local variable changed
    invoked,     \* solve(): the techniques invoked so far in the current pass
    ret,         \* return value of the last technique call
    op,          \* the last operation performed on the board
    probe        \* result of the last geometry query of the caller

vars == <<size, seed, value, candidates, relOrder, fishOrder, cellOrder,
          pc, tix, passes, changed, invoked, ret, op, probe>>

---------------------------------------------------------------------------
(* Bounds of the model *)

\* largest board length (box width * box height) whose geometry is explored
MaxLength == 8
\* largest number of clues of a seed the solver is explored on
MaxClues == 4
\* largest number of characters other than "." in a seed that is decoded
MaxSeedClues == 2

---------------------------------------------------------------------------
(* dependencies.py *)

None == 0
BOX == "BOX"
ROW == "ROW"
COLUMN == "COLUMN"
CellRelation == {BOX, ROW, COLUMN}
ALL_RELATIONS == CellRelation
NO_CANDIDATES == {}
MAX_CELL_VALUE == 25

NAKED == "NAKED"
HIDDEN == "HIDDEN"
LOCKED == "LOCKED"
FISH == "FISH"
WING == "WING"

Point(x, y) == [x |-> x, y |-> y]
Dimension(w, h) == [width |-> w, height |-> h]

---------------------------------------------------------------------------
(* Sequence helpers standing for Python's list and itertools operations *)

Range(s) == {s[i] : i \in DOMAIN s}

RECURSIVE ConcatAll(_)
ConcatAll(ss) == IF ss = <<>> THEN <<>> ELSE Head(ss) \o ConcatAll(Tail(ss))

\* the sub-list of s whose elements satisfy the membership in keep
RECURSIVE FilterIn(_, _)
FilterIn(s, keep) ==
    IF s = <<>> THEN <<>>
    ELSE (IF Head(s) \in keep THEN <<Head(s)>> ELSE <<>>) \o FilterIn(Tail(s), keep)

\* itertools.combinations(s, k): the k-element sub-lists in lexicographic order
RECURSIVE combinations(_, _)
combinations(s, k) ==
    IF k = 0 THEN << <<>> >>
    ELSE IF Len(s) < k THEN <<>>
    ELSE LET with == combinations(Tail(s), k - 1)
         IN  [i \in 1..Len(with) |-> <<Head(s)>> \o with[i]]
             \o combinations(Tail(s), k)

\* itertools.product(*ls): one element of every list, the last list varying fastest
RECURSIVE product(_)
product(ls) ==
    IF ls = <<>> THEN << <<>> >>
    ELSE LET rest == product(Tail(ls))
         IN  ConcatAll([i \in 1..Len(Head(ls)) |->
                           [j \in 1..Len(rest) |-> <<Head(ls)[i]>> \o rest[j]]])

\* the non-empty lists of a list of lists, "[grp for grp in ss if grp]"
RECURSIVE DropEmpty(_)
DropEmpty(ss) ==
    IF ss = <<>> THEN <<>>
    ELSE (IF Head(ss) = <<>> THEN <<>> ELSE <<Head(ss)>>) \o DropEmpty(Tail(ss))

\* range(a, b) as a list
range(a, b) == [i \in 1..(IF b > a THEN b - a ELSE 0) |-> a + i - 1]

\* a set of integers as the ascending list
RECURSIVE Ascending(_)
Ascending(S) ==
    IF S = {} THEN <<>>
    ELSE LET m == CHOOSE x \in S : \A y \in S : x <= y
         IN  <<m>> \o Ascending(S \ {m})

Reverse(s) == [i \in 1..Len(s) |-> s[Len(s) + 1 - i]]

\* statements run in sequence: Done(st) holds once the state st left by one
\* iteration of a loop has been computed, before the next iteration begins
Done(st) == st = st

---------------------------------------------------------------------------
(* Geometry: Sudoku.index_to_location, cell_box, cell, row, column, box.   *)
(* sz is Sudoku.size, the Dimension of a box.                              *)

length_of(sz) == sz.width * sz.height

index_to_location(sz, index) ==
    Point(index % length_of(sz), index \div length_of(sz))

location_to_index(sz, location) == location.y * length_of(sz) + location.x

\* cell_box with the axes not swapped: x by width, y by height
cell_box_unswapped(sz, location) ==
    Point(location.x \div sz.width, location.y \div sz.height)

cell_box(sz, location) ==
    Point(location.x \div sz.height, location.y \div sz.width)

\* board[y][x]
cell(sz, location) == location_to_index(sz, location)

\* board[:, x]
column(sz, x) == [i \in 1..length_of(sz) |-> cell(sz, Point(x, i - 1))]

\* board[y]
row(sz, y) == [i \in 1..length_of(sz) |-> cell(sz, Point(i - 1, y))]

\* box with the axes not swapped: board[y*height:(y+1)*height, x*width:(x+1)*width]
box_unswapped(sz, location) ==
    LET Clip(n) == IF n > length_of(sz) THEN length_of(sz) ELSE n
        ylo == Clip(location.y * sz.height)
        yhi == Clip((location.y + 1) * sz.height)
        xlo == Clip(location.x * sz.width)
        xhi == Clip((location.x + 1) * sz.width)
        ncols == xhi - xlo
    IN  [k \in 1..((yhi - ylo) * ncols) |->
            cell(sz, Point(xlo + ((k - 1) % ncols), ylo + ((k - 1) \div ncols)))]

\* board[y*width:(y+1)*width, x*height:(x+1)*height], flattened row by row;
\* a numpy slice is clipped to the board
box(sz, location) ==
    LET Clip(n) == IF n > length_of(sz) THEN length_of(sz) ELSE n
        ylo == Clip(location.y * sz.width)
        yhi == Clip((location.y + 1) * sz.width)
        xlo == Clip(location.x * sz.height)
        xhi == Clip((location.x + 1) * sz.height)
        ncols == xhi - xlo
    IN  [k \in 1..((yhi - ylo) * ncols) |->
            cell(sz, Point(xlo + ((k - 1) % ncols), ylo + ((k - 1) \div ncols)))]

\* Sudoku.rows, Sudoku.columns, Sudoku.boxes as built by __init__
rows_of(sz) == [i \in 1..length_of(sz) |-> row(sz, i - 1)]
columns_of(sz) == [i \in 1..length_of(sz) |-> column(sz, i - 1)]
boxes_of(sz) ==
    ConcatAll([i \in 1..sz.height |->
                  [j \in 1..sz.width |-> box(sz, Point(j - 1, i - 1))]])

\* the set related_cells builds for one relation, before filtering
related_of(sz, parent, relation) ==
    LET location == index_to_location(sz, parent)
    IN  (IF relation = BOX THEN Range(box(sz, cell_box(sz, location)))
         ELSE IF relation = ROW THEN Range(row(sz, location.y))
         ELSE Range(column(sz, location.x))) \ {parent}

\* What __init__ fixes for a board of box Dimension sz: the location and the
\* box of every cell, the three groupings, and the related cells of every cell
BoardGeometry(sz) ==
    LET cells == 0..(length_of(sz) * length_of(sz) - 1)
    IN  [location |-> [c \in cells |-> index_to_location(sz, c)],
         box |-> [c \in cells |-> cell_box(sz, index_to_location(sz, c))],
         rows |-> rows_of(sz),
         columns |-> columns_of(sz),
         boxes |-> boxes_of(sz),
         related |-> [c \in cells |->
                         [r \in CellRelation |-> related_of(sz, c, r)]]]

\* the box Dimensions of the boards that are explored
SolverDims == {Dimension(2, 2)}
\* the box Dimensions of the boards that seeds are decoded on
SeedDims ==
    {Dimension(1, 2), Dimension(2, 1), Dimension(3, 3), Dimension(4, 4)}
        \cup SolverDims
GeomDims ==
    {Dimension(w, h) : w \in 1..MaxLength, h \in 1..MaxLength} \cap
        {sz \in [width : 1..MaxLength, height : 1..MaxLength] :
            sz.width * sz.height <= MaxLength}
\* the geometry of every explored board, computed once
Geometry ==
    LET table == [sz \in GeomDims \cup SeedDims |-> BoardGeometry(sz)]
    IN  IF table = table THEN table ELSE table

\* the board of the current state
length == length_of(size)
Cells == 0..(length * length - 1)
ALL_CANDIDATES == 1..length
rows == Geometry[size].rows
columns == Geometry[size].columns
boxes == Geometry[size].boxes
CellLocation(c) == Geometry[size].location[c]
CellBox(c) == Geometry[size].box[c]

---------------------------------------------------------------------------
(* Module-level predicates: is_same_column, is_same_row, is_same_box *)

\* "cells and ...": an empty list is returned as is, and is falsy
is_same_column(cells) ==
    /\ cells # <<>>
    /\ \A i \in DOMAIN cells : CellLocation(cells[i]).x = CellLocation(cells[1]).x

is_same_row(cells) ==
    \/ cells = <<>>
    \/ \A i \in DOMAIN cells : CellLocation(cells[i]).y = CellLocation(cells[1]).y

is_same_box(cells) ==
    \/ cells = <<>>
    \/ \A i \in DOMAIN cells : CellBox(cells[i]) = CellBox(cells[1])

\* Cell.is_related
is_related(c, other_cell) ==
    LET cells == <<c, other_cell>>
    IN  is_same_box(cells) \/ is_same_column(cells) \/ is_same_row(cells)

---------------------------------------------------------------------------
(* Sudoku.related_cells *)

\* the set built by related_cells before filtering
related_set(parent, relations) ==
    UNION {Geometry[size].related[parent][r] : r \in relations}

\* list(cells) of a set of cells, in the process's iteration order over the set
ListOfCells(order, S) ==
    IF order = <<"asc">> THEN Ascending(S) ELSE Reverse(Ascending(S))

---------------------------------------------------------------------------
(* Cell: the value setter and the change tracking *)

\* A board state: the value and the candidates of every cell
Board(v, cs) == [value |-> v, candidates |-> cs]

\* ord() of a seed character
Digits == <<"0", "1", "2", "3", "4", "5", "6", "7", "8", "9">>
Uppers == <<"A", "B", "C", "D", "E", "F", "G", "H", "I", "J", "K", "L", "M",
            "N", "O", "P", "Q", "R", "S", "T", "U", "V", "W", "X", "Y", "Z">>
Lowers == <<"a", "b", "c", "d", "e", "f", "g", "h", "i", "j", "k", "l", "m",
            "n", "o", "p", "q", "r", "s", "t", "u", "v", "w", "x", "y", "z">>
IndexIn(s, ch) == CHOOSE i \in DOMAIN s : s[i] = ch
ord(ch) ==
    IF ch \in Range(Digits) THEN 48 + IndexIn(Digits, ch) - 1
    ELSE IF ch \in Range(Uppers) THEN 65 + IndexIn(Uppers, ch) - 1
    ELSE IF ch \in Range(Lowers) THEN 97 + IndexIn(Lowers, ch) - 1
    ELSE IF ch = "." THEN 46
    ELSE IF ch = "#" THEN 35
    ELSE 32
\* a str.upper that leaves every character as it is
upper_same(ch) == ch

upper(ch) == IF ch \in Range(Lowers) THEN Uppers[IndexIn(Lowers, ch)] ELSE ch

\* the value the setter stores for a one-character string
value_of_str(ch) ==
    IF ord("A") <= ord(upper(ch)) /\ ord(upper(ch)) <= ord("Z")
    THEN ord(upper(ch)) - ord("A") + 10
    ELSE IF ord("1") <= ord(ch) /\ ord(ch) <= ord("9")
    THEN ord(ch) - ord("0")
    ELSE None

\* a value setter that leaves the candidates of the cell as they were
value_setter_keeping(b, c, v) == Board([b.value EXCEPT ![c] = v], b.candidates)

\* Cell.value = v for an int v (or None): the candidates collapse to {v}
value_setter(b, c, v) ==
    Board([b.value EXCEPT ![c] = v],
          [b.candidates EXCEPT ![c] = IF v # None THEN {v} ELSE NO_CANDIDATES])

\* Cell.value_changed: old_value is NO_CANDIDATES (here -1) when the cell was
\* unsolved, and is compared with the new value
value_changed(old, new) == (IF old = None THEN -1 ELSE old) # new

\* CELL_VALUE_MAP
CELL_VALUE_MAP(v) ==
    IF v = 0 THEN " " ELSE IF v <= 9 THEN Digits[v + 1] ELSE Uppers[v - 9]

---------------------------------------------------------------------------
(* modify_cell_candidates *)

\* modify_cell_candidates where "difference" adds the values instead
modify_cell_candidates_adding(b, cells, opr, cands) ==
    IF cells = {} \/ cands = {} THEN [b |-> b, modified |-> {}]
    ELSE LET new == [c \in DOMAIN b.candidates |->
                        IF c \in cells
                        THEN IF opr = "intersection"
                             THEN b.candidates[c] \cap cands
                             ELSE b.candidates[c] \cup cands
                        ELSE b.candidates[c]]
         IN  [b |-> IF new = b.candidates THEN b ELSE Board(b.value, new),
              modified |-> {c \in cells : new[c] # b.candidates[c]}]

\* every cell of cells gets op(cell.candidates, cands); the cells whose
\* candidates differ from their previous candidates are returned
modify_cell_candidates(b, cells, opr, cands) ==
    IF cells = {} \/ cands = {} THEN [b |-> b, modified |-> {}]
    ELSE LET new == [c \in DOMAIN b.candidates |->
                        IF c \in cells
                        THEN IF opr = "intersection"
                             THEN b.candidates[c] \cap cands
                             ELSE b.candidates[c] \ cands
                        ELSE b.candidates[c]]
         IN  [b |-> IF new = b.candidates THEN b ELSE Board(b.value, new),
              modified |-> {c \in cells : new[c] # b.candidates[c]}]

---------------------------------------------------------------------------
(* Sudoku.populate_candidates *)

\* a population that looks at the row and the column only
populate_candidates_lines(b) ==
    Board(b.value,
          [c \in Cells |->
              IF b.value[c] = None
              THEN ALL_CANDIDATES \
                   {b.value[rc] : rc \in {r \in related_set(c, {ROW, COLUMN}) :
                                              b.value[r] # None}}
              ELSE b.candidates[c]])

populate_candidates(b) ==
    Board(b.value,
          [c \in Cells |->
              IF b.value[c] = None
              THEN ALL_CANDIDATES \
                   {b.value[rc] : rc \in {r \in related_set(c, ALL_RELATIONS) :
                                              b.value[r] # None}}
              ELSE b.candidates[c]])

\* Sudoku.__init__: zip_longest pads a short seed with None, every cell is
\* built by the value setter, then the candidates are populated
Construct(sd) ==
    CHOOSE constructed \in
        {populate_candidates(b) :
            b \in {Board(v, [c \in Cells |->
                                IF v[c] # None THEN {v[c]} ELSE NO_CANDIDATES]) :
                      v \in {[c \in Cells |->
                                  IF c + 1 <= Len(sd)
                                  THEN value_of_str(sd[c + 1])
                                  ELSE None]}}} : TRUE

---------------------------------------------------------------------------
(* Sudoku.apply_technique *)

Technique(type, sz, source_relation, target_relation) ==
    [type |-> type, size |-> sz, source_relation |-> source_relation,
     target_relation |-> target_relation]

\* "cells[0].value = next(iter(values))" and "if cells[0].value_changed()"
solve_source(b, c, v) ==
    [b |-> value_setter(b, c, v), acted |-> value_changed(b.value[c], v)]

\* "if modified: actions.append(...)" after the intersection
intersected(m) == [b |-> m.b, acted |-> m.modified # {}]

\* an apply_technique that leaves the cells of a hidden subset as they are
apply_source_singles(b, technique, source_cells, values) ==
    IF technique.type \in {NAKED, HIDDEN} /\ technique.size = 1
    THEN solve_source(b, source_cells[1], CHOOSE x \in values : TRUE)
    ELSE [b |-> b, acted |-> FALSE]

\* the first part of apply_technique: what is done to the source cells
apply_source(b, technique, source_cells, values) ==
    IF technique.type \in {NAKED, HIDDEN} /\ technique.size = 1
    THEN solve_source(b, source_cells[1], CHOOSE x \in values : TRUE)
    ELSE IF technique.type = HIDDEN
    THEN intersected(modify_cell_candidates(b, Range(source_cells),
                                            "intersection", values))
    ELSE [b |-> b, acted |-> FALSE]

\* an apply_technique that eliminates from no target cell
target_cells_of_none(b, technique, source_cells) == {}

\* the cells the technique eliminates values from
target_cells_of(b, technique, source_cells) ==
    IF technique.type = WING
    THEN (related_set(source_cells[2], ALL_RELATIONS)
          \cap related_set(source_cells[3], ALL_RELATIONS)) \ {source_cells[1]}
    ELSE LET sources == Range(source_cells)
         IN  UNION {{rc \in related_set(c, technique.target_relation) :
                        b.value[rc] = None /\ rc \notin sources} :
                    c \in sources}

\* "if actions: ... return True" / "return False"
applied(m, acted) == [b |-> m.b, result |-> acted \/ m.modified # {}]

\* the second part of apply_technique: the elimination from the target cells
apply_target(s, technique, source_cells, values) ==
    applied(modify_cell_candidates(s.b,
                                   target_cells_of(s.b, technique, source_cells),
                                   "difference", values),
            s.acted)

apply_technique(b, technique, source_cells, values) ==
    IF source_cells = <<>> \/ values = {} THEN [b |-> b, result |-> FALSE]
    ELSE apply_target(apply_source(b, technique, source_cells, values),
                      technique, source_cells, values)

\* "changed = self.apply_technique(...)"
changed_is(r) == [b |-> r.b, changed |-> r.result]

\* "changed = self.apply_technique(...)" where the code has "or changed"
changed_or_last(r, st) == [b |-> r.b, changed |-> r.result]

\* "changed = self.apply_technique(...) or changed"
changed_or(r, st) == [b |-> r.b, changed |-> r.result \/ st.changed]

---------------------------------------------------------------------------
(* Sudoku.solve_singles *)

\* the unsolved cells of a list, in the list's order
Unsolved(b, cells) == FilterIn(cells, {c \in Range(cells) : b.value[c] = None})

\* the candidates of the unsolved related cells of c in the given relations
peer_candidates(b, c, relations) ==
    UNION {b.candidates[rc] : rc \in {r \in related_set(c, relations) :
                                          b.value[r] = None}}

\* a hidden single that eliminates its value in its own relation only
hidden_single_own(st, c, relation, cands) ==
    IF Cardinality(cands) = 1
    THEN changed_is(apply_technique(st.b,
                                    Technique(HIDDEN, 1, {relation}, {relation}),
                                    <<c>>, cands))
    ELSE st

\* "if len(candidates) == 1: changed = self.apply_technique(...)"
hidden_single(st, c, relation, cands) ==
    IF Cardinality(cands) = 1
    THEN changed_is(apply_technique(st.b,
                                    Technique(HIDDEN, 1, {relation}, ALL_RELATIONS),
                                    <<c>>, cands))
    ELSE st

\* a hidden single that is the value no other cell of the relation holds or
\* has as a candidate, whatever the candidates of the cell itself are
singles_relation_missing(st, c, relation) ==
    hidden_single(st, c, relation,
                  ALL_CANDIDATES \
                      UNION {st.b.candidates[rc] : rc \in related_set(c, {relation})})

\* one iteration of "for relation in ALL_RELATIONS"; st = [b, changed]
singles_relation(st, c, relation) ==
    hidden_single(st, c, relation,
                  st.b.candidates[c] \ peer_candidates(st.b, c, {relation}))

RECURSIVE singles_relations(_, _, _)
singles_relations(st, c, rels) ==
    IF Done(st) /\ rels # <<>>
    THEN singles_relations(singles_relation(st, c, Head(rels)), c, Tail(rels))
    ELSE st

\* one iteration of "for cell in cells"
singles_cell(st, c, rels) ==
    IF Cardinality(st.b.candidates[c]) = 1
    THEN changed_or(apply_technique(st.b, Technique(NAKED, 1, {}, ALL_RELATIONS),
                                    <<c>>, st.b.candidates[c]),
                    st)
    ELSE singles_relations(st, c, rels)

RECURSIVE singles_cells(_, _, _)
singles_cells(st, cells, rels) ==
    IF Done(st) /\ cells # <<>>
    THEN singles_cells(singles_cell(st, Head(cells), rels), Tail(cells), rels)
    ELSE st

\* rels is the iteration order of ALL_RELATIONS
solve_singles(b, rels) ==
    singles_cells([b |-> b, changed |-> FALSE],
                  Unsolved(b, range(0, length * length)), rels)

---------------------------------------------------------------------------
(* Sudoku.solve_subsets *)

\* self.boxes, self.rows or self.columns
GroupsOf(relation) ==
    IF relation = BOX THEN boxes ELSE IF relation = ROW THEN rows ELSE columns

\* the union of the candidates of a set of cells
CandidatesOf(b, cells) == UNION {b.candidates[c] : c \in cells}

\* the relation a locked subset of a group of the given relation points along
locked_relation(relation, subset) ==
    IF relation = BOX
    THEN IF is_same_column(subset) THEN COLUMN
         ELSE IF is_same_row(subset) THEN ROW
         ELSE "none"
    ELSE IF is_same_box(subset) THEN BOX
    ELSE "none"

\* the body of "for subset in it.combinations(cells, subset_length)" once the
\* source and the target candidates are known
subsets_apply(st, relation, subset, source_candidates, target_candidates) ==
    IF Cardinality(target_candidates) = Len(subset)
    THEN changed_or(
             apply_technique(
                 st.b,
                 Technique(IF source_candidates = target_candidates
                           THEN NAKED ELSE HIDDEN,
                           Cardinality(target_candidates), {relation}, {relation}),
                 subset, target_candidates),
             st)
    ELSE IF /\ Cardinality(target_candidates) < Len(subset)
            /\ locked_relation(relation, subset) # "none"
    THEN changed_or(
             apply_technique(
                 st.b,
                 Technique(LOCKED, Len(subset), {relation},
                           {locked_relation(relation, subset)}),
                 subset, target_candidates),
             st)
    ELSE st

\* the body of "for subset in it.combinations(cells, subset_length)"
subsets_subset(st, relation, cells, subset) ==
    subsets_apply(st, relation, subset,
                  CandidatesOf(st.b, Range(subset)),
                  CandidatesOf(st.b, Range(subset))
                      \ CandidatesOf(st.b, Range(cells) \ Range(subset)))

RECURSIVE subsets_combinations(_, _, _, _)
subsets_combinations(st, relation, cells, subs) ==
    IF Done(st) /\ subs # <<>>
    THEN subsets_combinations(subsets_subset(st, relation, cells, Head(subs)),
                              relation, cells, Tail(subs))
    ELSE st

\* the combinations of every subset_length in range(2, len(cells) - 1), in order
subsets_of_group(cells) ==
    ConcatAll([i \in 1..Len(range(2, Len(cells) - 1)) |->
                  combinations(cells, range(2, Len(cells) - 1)[i])])

RECURSIVE subsets_groups(_, _, _)
subsets_groups(st, relation, cell_groups) ==
    IF Done(st) /\ cell_groups # <<>>
    THEN subsets_groups(
             subsets_combinations(st, relation, Head(cell_groups),
                                  subsets_of_group(Head(cell_groups))),
             relation, Tail(cell_groups))
    ELSE st

\* the groups of the relation restricted to their unsolved cells, empty groups dropped
cell_groups_of(b, relation) ==
    DropEmpty([i \in 1..Len(GroupsOf(relation)) |->
                  Unsolved(b, GroupsOf(relation)[i])])

RECURSIVE subsets_relations(_, _)
subsets_relations(st, rels) ==
    IF Done(st) /\ rels # <<>>
    THEN subsets_relations(
             subsets_groups(st, Head(rels), cell_groups_of(st.b, Head(rels))),
             Tail(rels))
    ELSE st

\* rels is the iteration order of ALL_RELATIONS
solve_subsets(b, rels) == subsets_relations([b |-> b, changed |-> FALSE], rels)

---------------------------------------------------------------------------
(* Sudoku.solve_fish *)

\* ALL_CANDIDATES.intersection(*[c.candidates for c in cells])
CommonCandidates(b, cells) ==
    {v \in ALL_CANDIDATES : \A c \in cells : v \in b.candidates[c]}

\* the coordinate of a cell along the cover axis
cover_coordinate(relation, c) ==
    IF relation = ROW THEN CellLocation(c).x ELSE CellLocation(c).y

\* the condition a subset of a line is kept on: it holds a value found
\* nowhere else in the line
line_subset_kept(b, grp, subset) ==
    Cardinality(CommonCandidates(b, Range(subset))
                \ CandidatesOf(b, Range(grp) \ Range(subset))) >= 1

\* the kept subsets of one line, by length then in combination order
line_subsets(b, grp) ==
    SelectSeq(ConcatAll([i \in 1..Len(range(2, Len(grp) + 1)) |->
                            combinations(grp, range(2, Len(grp) + 1)[i])]),
              LAMBDA subset : line_subset_kept(b, grp, subset))

\* group_sets: the non-empty subset lists of the lines
group_sets_of(b, relation) ==
    DropEmpty([i \in 1..length |->
                  line_subsets(b, Unsolved(b, IF relation = ROW
                                              THEN rows[i] ELSE columns[i]))])

\* the number of cells of the fish at each cover coordinate is never 1
no_lone_coordinate(coords) ==
    \A i \in DOMAIN coords :
        Cardinality({j \in DOMAIN coords : coords[j] = coords[i]}) # 1

\* an acceptance test that does not count the cover lines of the fish
fish_accepted_uncounted(b, relation, fish_size, cells) ==
    /\ Cardinality(CommonCandidates(b, Range(cells))) >= 1
    /\ no_lone_coordinate([i \in DOMAIN cells |->
                              cover_coordinate(relation, cells[i])])

\* the acceptance test of the cells of one element of it.product(*fish_stock)
fish_accepted(b, relation, fish_size, cells) ==
    /\ Cardinality({cover_coordinate(relation, cells[i]) : i \in DOMAIN cells})
           = fish_size
    /\ Cardinality(CommonCandidates(b, Range(cells))) >= 1
    /\ no_lone_coordinate([i \in DOMAIN cells |->
                              cover_coordinate(relation, cells[i])])

\* Fish(fish_size, [c for subset in fish for c in subset])
Fish(fish_size, fish) == [size |-> fish_size, cells |-> ConcatAll(fish)]

\* the accepted fish of one fish_stock, in product order
fishes_of_stock(b, relation, fish_size, fish_stock) ==
    LET prods == product(fish_stock)
    IN  SelectSeq([i \in 1..Len(prods) |-> Fish(fish_size, prods[i])],
                  LAMBDA fish : fish_accepted(b, relation, fish_size, fish.cells))

\* the accepted fish of one fish_size, by stock in combination order
fishes_of_size(b, relation, group_sets, fish_size) ==
    LET stocks == combinations(group_sets, fish_size)
    IN  ConcatAll([i \in 1..Len(stocks) |->
                      fishes_of_stock(b, relation, fish_size, stocks[i])])

\* fishes: the accepted fish in enumeration order
fishes_of(b, relation, group_sets) ==
    ConcatAll([i \in 1..Len(range(2, Len(group_sets) + 1)) |->
                  fishes_of_size(b, relation, group_sets,
                                 range(2, Len(group_sets) + 1)[i])])

\* the unsolved cells related to a cell of the fish that are not of the fish
fish_others(b, relation, cells) ==
    LET fish_cells == Range(cells)
    IN  UNION {{rc \in related_set(c, {relation}) :
                   b.value[rc] = None /\ rc \notin fish_cells} : c \in fish_cells}

\* "changed = self.apply_technique(...)" inside the relation loop
fish_changed_last(r, st) == [b |-> r.b, changed |-> r.result, returned |-> FALSE]

\* "changed = self.apply_technique(...) or changed" inside the relation loop
fish_changed(r, st) ==
    [b |-> r.b, changed |-> r.result \/ st.changed, returned |-> FALSE]

\* the body of "for fish in fishes"
fish_apply(st, relation, fish) ==
    fish_changed(
        apply_technique(
            st.b,
            Technique(FISH, fish.size, {relation},
                      {IF relation = COLUMN THEN ROW ELSE COLUMN}),
            fish.cells,
            CommonCandidates(st.b, Range(fish.cells))
                \ CandidatesOf(st.b, fish_others(st.b, relation, fish.cells))),
        st)

RECURSIVE fish_fishes(_, _, _)
fish_fishes(st, relation, fishes) ==
    IF Done(st) /\ fishes # <<>>
    THEN fish_fishes(fish_apply(st, relation, Head(fishes)), relation, Tail(fishes))
    ELSE st

\* "if len(group_sets) < 2: return False", else the fish are built and applied
fish_group_sets(st, relation, group_sets) ==
    IF Len(group_sets) < 2
    THEN [b |-> st.b, changed |-> FALSE, returned |-> TRUE]
    ELSE fish_fishes(st, relation, fishes_of(st.b, relation, group_sets))

\* one iteration of "for relation in {ROW, COLUMN}"; st = [b, changed, returned]
fish_relation(st, relation) ==
    fish_group_sets(st, relation, group_sets_of(st.b, relation))

\* a solve_fish that processes only the first relation of {ROW, COLUMN}
fish_relations_first(st, rels) ==
    IF rels # <<>> THEN fish_relation(st, Head(rels)) ELSE st

RECURSIVE fish_relations(_, _)
fish_relations(st, rels) ==
    IF Done(st) /\ rels # <<>> /\ ~st.returned
    THEN fish_relations(fish_relation(st, Head(rels)), Tail(rels))
    ELSE st

\* "return changed" or the early "return False"
fish_return(st) == [b |-> st.b, changed |-> st.changed]

\* rels is the iteration order of {ROW, COLUMN}
solve_fish(b, rels) ==
    fish_return(fish_relations([b |-> b, changed |-> FALSE, returned |-> FALSE],
                               rels))

---------------------------------------------------------------------------
(* Sudoku.solve_wings *)

\* the acceptance test of a pair of wing cells for a pivot
wing_accepted(b, pivot_cell, wc) ==
    /\ b.candidates[wc[1]] # b.candidates[wc[2]]
    /\ ~is_related(wc[1], wc[2])
    /\ Cardinality(b.candidates[pivot_cell] \cup b.candidates[wc[1]]
                   \cup b.candidates[wc[2]]) = 3

\* the body of "for wing in wings"
wings_wing(st, pivot_cell, wing) ==
    changed_is(apply_technique(
                   st.b, Technique(WING, 2, {}, ALL_RELATIONS),
                   <<pivot_cell, wing[1], wing[2]>>,
                   st.b.candidates[wing[1]] \cap st.b.candidates[wing[2]]))

RECURSIVE wings_wings(_, _, _)
wings_wings(st, pivot_cell, wings) ==
    IF Done(st) /\ wings # <<>>
    THEN wings_wings(wings_wing(st, pivot_cell, Head(wings)), pivot_cell, Tail(wings))
    ELSE st

\* the related cells a wing of the pivot is drawn from
wing_candidates(b, pivot_cell) ==
    {c \in related_set(pivot_cell, ALL_RELATIONS) :
        /\ b.value[c] = None
        /\ Cardinality(b.candidates[c]) = 2
        /\ b.candidates[c] # b.candidates[pivot_cell]}

\* the body of "for pivot_cell in [...]": wings is built before the first
\* wing is applied
wings_pivot(st, pivot_cell, order) ==
    wings_wings(st, pivot_cell,
                SelectSeq(combinations(ListOfCells(order,
                                                   wing_candidates(st.b, pivot_cell)),
                                       2),
                          LAMBDA wc : wing_accepted(st.b, pivot_cell, wc)))

RECURSIVE wings_pivots(_, _, _)
wings_pivots(st, pivots, order) ==
    IF Done(st) /\ pivots # <<>>
    THEN wings_pivots(wings_pivot(st, Head(pivots), order), Tail(pivots), order)
    ELSE st

\* the pivot list is built before the first pivot is visited;
\* order is the iteration order of a set of cells
solve_wings(b, order) ==
    wings_pivots([b |-> b, changed |-> FALSE],
                 FilterIn(range(0, length * length),
                          {c \in Cells : b.value[c] = None
                                         /\ Cardinality(b.candidates[c]) = 2}),
                 order)

---------------------------------------------------------------------------
(* The boards the solver is explored on *)

\* complete grids the clues of a seed are taken from: a valid grid, and the
\* same grid with the clue of cell 2 repeating the clue of cell 6 below it
\* (a seed holding both clues is contradictory)
BaseGrids(sz) ==
    {<<1, 2, 3, 4,  3, 4, 1, 2,  2, 1, 4, 3,  4, 3, 2, 1>>,
     <<1, 2, 1, 4,  3, 4, 1, 2,  2, 1, 4, 3,  4, 3, 2, 1>>}

\* the clue patterns: the sets of cells that may hold clues together
CluePatterns(sz) == {{2, 6, 9, 10}, {1, 10, 13}}

\* the seed strings: the clues of a base grid on at most MaxClues cells of a
\* clue pattern, "." elsewhere
Seeds(sz) ==
    {[i \in 1..(length_of(sz) * length_of(sz)) |->
         IF (i - 1) \in K THEN CELL_VALUE_MAP(g[i]) ELSE "."] :
     g \in BaseGrids(sz),
     K \in {K \in UNION {SUBSET P : P \in CluePatterns(sz)} :
               Cardinality(K) <= MaxClues}}

\* the orders in which a Python process may iterate over the relation sets
RelationOrders ==
    {<<BOX, ROW, COLUMN>>, <<BOX, COLUMN, ROW>>, <<ROW, BOX, COLUMN>>,
     <<ROW, COLUMN, BOX>>, <<COLUMN, BOX, ROW>>, <<COLUMN, ROW, BOX>>}
FishOrders == {<<ROW, COLUMN>>, <<COLUMN, ROW>>}
CellOrders == {<<"asc">>, <<"desc">>}

---------------------------------------------------------------------------
(* The state machine *)

techniques == <<"solve_singles", "solve_subsets", "solve_fish", "solve_wings">>

board == Board(value, candidates)

\* The iteration order of a Python set is fixed for the process but is not
\* known before the set is iterated: an order variable is empty until the
\* first technique that iterates the set runs, and keeps its value from then on
Unobserved == <<>>
Observed(order, orders) == IF order = Unobserved THEN orders ELSE {order}

\* the set whose iteration order the technique depends on
OrdersOf(name) ==
    IF name \in {"solve_singles", "solve_subsets"}
    THEN Observed(relOrder, RelationOrders)
    ELSE IF name = "solve_fish" THEN Observed(fishOrder, FishOrders)
    ELSE Observed(cellOrder, CellOrders)

\* technique() for the technique of the given name, when its set iterates in order
RunTechnique(name, b, order) ==
    IF name = "solve_singles" THEN solve_singles(b, order)
    ELSE IF name = "solve_subsets" THEN solve_subsets(b, order)
    ELSE IF name = "solve_fish" THEN solve_fish(b, order)
    ELSE solve_wings(b, order)

\* the iteration order the technique has run with is the process's from now on
Iterated(name, order) ==
    /\ relOrder' = IF name \in {"solve_singles", "solve_subsets"}
                   THEN order ELSE relOrder
    /\ fishOrder' = IF name = "solve_fish" THEN order ELSE fishOrder
    /\ cellOrder' = IF name = "solve_wings" THEN order ELSE cellOrder

\* the state after Sudoku(seed, size)
Constructed(sz, sd) ==
    /\ size = sz
    /\ seed = sd
    /\ relOrder = Unobserved
    /\ fishOrder = Unobserved
    /\ cellOrder = Unobserved
    /\ IF Len(sd) > length_of(sz) * length_of(sz)
       THEN \* zip_longest pads the range with None: index_to_location(None)
            \* raises TypeError and no board is built
            value = <<>> /\ candidates = <<>> /\ op = "TypeError"
       ELSE /\ value = Construct(seed).value
            /\ candidates = Construct(seed).candidates
            /\ op = "construct"
    /\ pc = "ready"
    /\ tix = 1
    /\ passes = 0
    /\ changed = FALSE
    /\ invoked = <<>>
    /\ ret = FALSE
    /\ probe = <<>>

Init == \E sz \in SolverDims : \E sd \in Seeds(sz) : Constructed(sz, sd)

\* technique() returns r: the board it leaves and the value it returns
Returned(r) ==
    /\ value' = r.b.value
    /\ candidates' = r.b.candidates
    /\ ret' = r.changed

\* the caller calls the technique of the given name directly and it returns r
Called(name, order, r) ==
    /\ pc \in {"ready", "returned"}
    /\ Returned(r)
    /\ Iterated(name, order)
    /\ op' = name
    /\ pc' = "ready"
    /\ UNCHANGED <<size, seed, tix, passes, changed, invoked, probe>>

CallSingles ==
    \E order \in OrdersOf("solve_singles") :
        Called("solve_singles", order, solve_singles(board, order))
CallSubsets ==
    \E order \in OrdersOf("solve_subsets") :
        Called("solve_subsets", order, solve_subsets(board, order))
CallFish ==
    \E order \in OrdersOf("solve_fish") :
        Called("solve_fish", order, solve_fish(board, order))
CallWings ==
    \E order \in OrdersOf("solve_wings") :
        Called("solve_wings", order, solve_wings(board, order))

\* any sequence of technique calls on a constructed board
Next ==
    \/ CallSingles
    \/ CallSubsets
    \/ CallFish
    \/ CallWings

Spec == Init /\ [][Next]_vars

\* the caller calls solve_fish as long as it likes, with solve_singles between
\* the calls when it likes
FishNext == CallFish \/ CallSingles

FishSpec == Init /\ [][FishNext]_vars

---------------------------------------------------------------------------
(* Sudoku.solve *)

\* a loop without "if not changed: break"
ContinueLoop_always(chg) == TRUE

\* "if not changed: break": the loop goes on exactly when changed is true
ContinueLoop(chg) == chg

\* "technique() or changed": technique() is evaluated whatever changed is
Evaluated_always(chg) == TRUE

\* "changed or technique()": technique() is evaluated only when changed is false
Evaluated(chg) == ~chg

\* the caller calls solve(): the first pass begins; a call on the board a
\* previous solve() has just returned is tracked as "resolving"
SolveStart ==
    /\ pc \in {"ready", "returned"}
    /\ pc' = IF pc = "returned" THEN "resolving" ELSE "solving"
    /\ tix' = 1
    /\ passes' = 1
    /\ changed' = FALSE
    /\ invoked' = <<>>
    /\ op' = "solve"
    /\ UNCHANGED <<size, seed, value, candidates, relOrder, fishOrder,
                   cellOrder, ret, probe>>

\* "changed = changed or technique()" where technique() is called
SolveInvoke ==
    /\ pc \in {"solving", "resolving"}
    /\ tix <= Len(techniques)
    /\ Evaluated(changed)
    /\ \E order \in OrdersOf(techniques[tix]) :
           /\ Returned(RunTechnique(techniques[tix], board, order))
           /\ Iterated(techniques[tix], order)
    /\ changed' = (changed \/ ret')
    /\ invoked' = Append(invoked, techniques[tix])
    /\ op' = techniques[tix]
    /\ tix' = tix + 1
    /\ UNCHANGED <<size, seed, pc, passes, probe>>

\* "changed = changed or technique()" where "or" short-circuits: technique()
\* is not called
SolveSkip ==
    /\ pc \in {"solving", "resolving"}
    /\ tix <= Len(techniques)
    /\ ~Evaluated(changed)
    /\ tix' = tix + 1
    /\ op' = "skip"
    /\ UNCHANGED <<size, seed, value, candidates, relOrder, fishOrder,
                   cellOrder, pc, passes, changed, invoked, ret, probe>>

\* the end of a pass: "if not changed: break", else the next pass of "while True"
SolveLoop ==
    /\ pc \in {"solving", "resolving"}
    /\ tix > Len(techniques)
    /\ IF ContinueLoop(changed)
       THEN /\ pc' = pc
            /\ tix' = 1
            /\ passes' = passes + 1
            /\ changed' = FALSE
            /\ invoked' = <<>>
            /\ op' = "pass"
       ELSE /\ pc' = "returned"
            /\ op' = "return"
            /\ UNCHANGED <<tix, passes, changed, invoked>>
    /\ UNCHANGED <<size, seed, value, candidates, relOrder, fishOrder,
                   cellOrder, ret, probe>>

\* after solve() has returned the caller runs one technique on the final board
AfterSingles == pc = "returned" /\ CallSingles
AfterSubsets == pc = "returned" /\ CallSubsets
AfterFish == pc = "returned" /\ CallFish
AfterWings == pc = "returned" /\ CallWings

SolveNext ==
    \/ SolveStart
    \/ SolveInvoke
    \/ SolveSkip
    \/ SolveLoop
    \/ AfterSingles
    \/ AfterSubsets
    \/ AfterFish
    \/ AfterWings

SolveSpec == Init /\ [][SolveNext]_vars

---------------------------------------------------------------------------
(* modify_cell_candidates called by the caller *)

\* the collections of cells the caller passes: none, one cell, a row, a
\* column, a box, or the cells related to a cell
CellCollections ==
    {{}} \cup {{c} : c \in Cells}
         \cup {Range(GroupsOf(relation)[i]) : relation \in CellRelation, i \in 1..length}
         \cup {related_set(c, ALL_RELATIONS) : c \in Cells}

\* modify_cell_candidates(cells, frozenset.difference, values) on the board as
\* constructed or as solve_singles left it; probe keeps the arguments
Modify ==
    /\ op \in {"construct", "solve_singles"}
    /\ \E cells \in CellCollections : \E values \in SUBSET ALL_CANDIDATES :
           /\ \A r \in {modify_cell_candidates(board, cells, "difference", values)} :
                  /\ value' = r.b.value
                  /\ candidates' = r.b.candidates
                  /\ ret' = (r.modified # {})
           /\ probe' = <<cells, values>>
    /\ op' = "modify_cell_candidates"
    /\ UNCHANGED <<size, seed, relOrder, fishOrder, cellOrder, pc, tix, passes,
                   changed, invoked>>

\* solve_singles before modify_cell_candidates is called
ModifySingles == op \in {"construct", "solve_singles"} /\ CallSingles

ModifyNext == Modify \/ ModifySingles

ModifySpec == Init /\ [][ModifyNext]_vars

---------------------------------------------------------------------------
(* Sudoku.solve on contradictory seeds *)

\* clues that leave no value for the last cell of the first row: 1, 2 and 3
\* beside it, 4 below it in its box and in its column
ClashGrids(sz) ==
    {<<1, 2, 3, 4,  3, 4, 1, 4,  2, 1, 3, 4,  4, 3, 2, 1>>}

\* the cells that hold those clues
ClashPatterns(sz) == {{0, 1, 2, 7, 11}}

\* the seeds with clues that clash, and the seeds with a part of them
ClashSeeds(sz) ==
    {[i \in 1..(length_of(sz) * length_of(sz)) |->
         IF (i - 1) \in K THEN CELL_VALUE_MAP(g[i]) ELSE "."] :
     g \in ClashGrids(sz),
     K \in {K \in UNION {SUBSET P : P \in ClashPatterns(sz)} :
               Cardinality(K) <= MaxClues}}

ClashInit ==
    \E sz \in SolverDims : \E sd \in ClashSeeds(sz) : Constructed(sz, sd)

ClashSpec == ClashInit /\ [][SolveNext]_vars

---------------------------------------------------------------------------
(* Sudoku.solve as one call, in a process with given iteration orders *)

\* the iteration orders of a process: of ALL_RELATIONS, of {ROW, COLUMN} and
\* of a set of cells
ProcessOrders ==
    [rel : RelationOrders, fish : FishOrders, cell : CellOrders]

\* the order the technique of the given name iterates its set in
order_of(name, orders) ==
    IF name \in {"solve_singles", "solve_subsets"} THEN orders.rel
    ELSE IF name = "solve_fish" THEN orders.fish
    ELSE orders.cell

\* "changed = changed or technique()"; st = [b, changed]
solve_technique(st, name, orders) ==
    IF Evaluated(st.changed)
    THEN RunTechnique(name, st.b, order_of(name, orders))
    ELSE st

\* "for technique in techniques"
RECURSIVE solve_techniques(_, _, _)
solve_techniques(st, names, orders) ==
    IF Done(st) /\ names # <<>>
    THEN solve_techniques(solve_technique(st, Head(names), orders),
                          Tail(names), orders)
    ELSE st

\* "while True": a pass, then "if not changed: break"
RECURSIVE solve_pass(_, _)
solve_pass(st, orders) ==
    IF Done(st) /\ ContinueLoop(st.changed)
    THEN solve_pass(solve_techniques([b |-> st.b, changed |-> FALSE],
                                     techniques, orders),
                    orders)
    ELSE st.b

\* the board solve() leaves
solve(b, orders) ==
    solve_pass(solve_techniques([b |-> b, changed |-> FALSE], techniques, orders),
               orders)

\* the caller calls solve() on the constructed board and solve() returns
Solve ==
    /\ pc = "ready"
    /\ \E orders \in ProcessOrders :
           /\ value' = solve(board, orders).value
           /\ candidates' = solve(board, orders).candidates
           /\ relOrder' = orders.rel
           /\ fishOrder' = orders.fish
           /\ cellOrder' = orders.cell
    /\ pc' = "returned"
    /\ op' = "solve"
    /\ UNCHANGED <<size, seed, tix, passes, changed, invoked, ret, probe>>

RunNext == Solve

\* a complete valid grid of the two-by-two box board with equal clues placed
\* diagonally in the left boxes
RunGrids(sz) ==
    {<<1, 2, 4, 3,  3, 4, 2, 1,  2, 3, 1, 4,  4, 1, 3, 2>>}

\* the cells holding the clues of the seed "12......2.1....."
RunPatterns(sz) == {{0, 1, 8, 10}}

\* the seeds solve() is called on: those of the technique calls and the
\* seeds cut out of RunGrids
RunSeeds(sz) ==
    Seeds(sz) \cup
    {[i \in 1..(length_of(sz) * length_of(sz)) |->
         IF (i - 1) \in K THEN CELL_VALUE_MAP(g[i]) ELSE "."] :
     g \in RunGrids(sz),
     K \in {K \in UNION {SUBSET P : P \in RunPatterns(sz)} :
               Cardinality(K) <= MaxClues}}

RunInit == \E sz \in SolverDims : \E sd \in RunSeeds(sz) : Constructed(sz, sd)

RunSpec == RunInit /\ [][RunNext]_vars

---------------------------------------------------------------------------
(* Geometry queries on boards of every box Dimension *)

\* an empty seed: zip_longest pads every cell with None
GeomInit == \E sz \in GeomDims : Constructed(sz, <<>>)

\* the caller looks a cell up and reads its box and the cells of that box
ProbeCell ==
    /\ \E c \in Cells :
           probe' = <<CellLocation(c), CellBox(c), box(size, CellBox(c))>>
    /\ op' = "cell"
    /\ UNCHANGED <<size, seed, value, candidates, relOrder, fishOrder,
                   cellOrder, pc, tix, passes, changed, invoked, ret>>

\* the caller reads the cells of the box at a box location
ProbeBox ==
    /\ \E x \in 0..(size.width - 1), y \in 0..(size.height - 1) :
           probe' = <<Point(x, y), box(size, Point(x, y))>>
    /\ op' = "box"
    /\ UNCHANGED <<size, seed, value, candidates, relOrder, fishOrder,
                   cellOrder, pc, tix, passes, changed, invoked, ret>>

GeomNext == ProbeCell \/ ProbeBox

GeomSpec == GeomInit /\ [][GeomNext]_vars

\* the cell lists the caller hands to is_same_row, is_same_column and
\* is_same_box: the empty list and the lists of one or two cells
SameInputs ==
    {<<>>} \cup {<<c>> : c \in Cells} \cup {<<c, d>> : c \in Cells, d \in Cells}

\* the caller asks of a board just constructed whether the cells of a list
\* share a row, a column, a box; probe keeps the list and the truth of the
\* three results
ProbeSame ==
    /\ op = "construct"
    /\ \E cells \in SameInputs :
           probe' = <<cells, is_same_row(cells), is_same_column(cells),
                      is_same_box(cells)>>
    /\ op' = "is_same"
    /\ UNCHANGED <<size, seed, value, candidates, relOrder, fishOrder,
                   cellOrder, pc, tix, passes, changed, invoked, ret>>

SameSpec == GeomInit /\ [][ProbeSame]_vars

---------------------------------------------------------------------------
(* Location labels: Cell.var_to_string("location") and Sudoku.cell(label) *)

\* chr() of the code points var_to_string reaches on the explored boards
chr(n) ==
    IF n \in 65..90 THEN Uppers[n - 64]
    ELSE IF n \in 97..122 THEN Lowers[n - 96]
    ELSE IF n \in 48..57 THEN Digits[n - 47]
    ELSE "#"

\* str.format of a non-negative int: its decimal digits
RECURSIVE format_int(_)
format_int(n) ==
    IF n < 10 THEN <<Digits[n + 1]>>
    ELSE format_int(n \div 10) \o <<Digits[(n % 10) + 1]>>

\* int() of a string of decimal digits
RECURSIVE int(_)
int(digits) ==
    IF digits = <<>> THEN 0
    ELSE 10 * int(SubSeq(digits, 1, Len(digits) - 1))
         + (ord(digits[Len(digits)]) - ord("0"))

\* c.var_to_string("location") with no options:
\* "{}{}".format(chr(ord("A") + self.location.y), self.location.x + 1)
var_to_string(c) ==
    <<chr(ord("A") + CellLocation(c).y)>> \o format_int(CellLocation(c).x + 1)

\* the longest run of digits at the start of s: what "(\d+)" matches there
RECURSIVE leading_digits(_)
leading_digits(s) ==
    IF s # <<>> /\ Head(s) \in Range(Digits)
    THEN <<Head(s)>> \o leading_digits(Tail(s))
    ELSE <<>>

\* board[i][j] of the numpy array: a negative index counts from the end, an
\* index outside -length..length-1 raises IndexError
board_at(sz, i, j) ==
    IF i \in (-length_of(sz))..(length_of(sz) - 1)
       /\ j \in (-length_of(sz))..(length_of(sz) - 1)
    THEN cell(sz, Point(j % length_of(sz), i % length_of(sz)))
    ELSE "IndexError"

\* Sudoku.cell(location) for a str: the letter indexes the second axis of the
\* board and the number, less one, the first; a str the pattern does not
\* match falls through to location.y, which a str does not have
cell_label(sz, location) ==
    LET up == [i \in DOMAIN location |-> upper(location[i])]
    IN  IF up # <<>> /\ up[1] \in Range(Uppers) /\ leading_digits(Tail(up)) # <<>>
        THEN board_at(sz, int(leading_digits(Tail(up))) - 1,
                      ord(up[1]) - ord("A"))
        ELSE "AttributeError"

LabelInit == \E sz \in SeedDims : Constructed(sz, <<>>)

\* the caller formats the location of a cell and looks the label up; probe
\* keeps the cell, the label and the cell found
ProbeLabel ==
    /\ \E c \in Cells :
           probe' = <<c, var_to_string(c), cell_label(size, var_to_string(c))>>
    /\ op' = "var_to_string"
    /\ UNCHANGED <<size, seed, value, candidates, relOrder, fishOrder,
                   cellOrder, pc, tix, passes, changed, invoked, ret>>

LabelSpec == LabelInit /\ [][ProbeLabel]_vars

---------------------------------------------------------------------------
(* Seeds: construction from a seed string, calculate_seed and back *)

\* Cell.__str__: CELL_VALUE_MAP is a dict with the keys 0..MAX_CELL_VALUE
Cell_str(v) ==
    IF v = None THEN " "
    ELSE IF v \in 0..MAX_CELL_VALUE THEN CELL_VALUE_MAP(v)
    ELSE "KeyError"

\* a calculate_seed that joins str(c) for every cell
calculate_seed_str(b) ==
    IF \E c \in Cells : Cell_str(b.value[c]) = "KeyError" THEN <<"KeyError">>
    ELSE [i \in 1..(length * length) |-> Cell_str(b.value[i - 1])]

\* Sudoku.calculate_seed: "." for a cell without a value, else str(c)
calculate_seed(b) ==
    IF \E c \in Cells : Cell_str(b.value[c]) = "KeyError" THEN <<"KeyError">>
    ELSE [i \in 1..(length * length) |->
             IF b.value[i - 1] = None THEN "." ELSE Cell_str(b.value[i - 1])]

\* the characters seeds are written with: the empty markers, digits, letters
\* of both cases up to "Z", and a character outside the documented alphabet
SeedCharacters == {".", "0", " ", "1", "2", "9", "a", "A", "G", "Z", "#"}

\* the seeds of n characters of which at most k are not "."
CluedSeeds(n, k) ==
    {[i \in 1..n |-> IF i \in DOMAIN f THEN f[i] ELSE "."] :
     f \in UNION {[K -> SeedCharacters \ {"."}] :
                  K \in {K \in SUBSET (1..n) : Cardinality(K) <= k}}}

\* the seeds decoded on a board of box Dimension sz: shorter than the board,
\* as long, and longer
SeedsOf(sz) ==
    IF sz \in SolverDims THEN Seeds(sz)
    ELSE IF sz = Dimension(3, 3)
    THEN {[i \in 1..n |-> "."] : n \in {80, 81, 82}}
    ELSE IF sz = Dimension(4, 4)
    THEN UNION {CluedSeeds(n, MaxSeedClues) : n \in 0..2}
    ELSE UNION {CluedSeeds(n, MaxSeedClues) :
                n \in 0..(length_of(sz) * length_of(sz) + 1)}

SeedInit == \E sz \in SeedDims : \E sd \in SeedsOf(sz) : Constructed(sz, sd)

\* the caller calls calculate_seed() on a freshly constructed board
CalculateSeed ==
    /\ op \in {"construct", "reconstruct"}
    /\ probe' = calculate_seed(board)
    /\ op' = "calculate_seed"
    /\ UNCHANGED <<size, seed, value, candidates, relOrder, fishOrder,
                   cellOrder, pc, tix, passes, changed, invoked, ret>>

\* the caller constructs a board from the string calculate_seed() returned
Reconstruct ==
    /\ op = "calculate_seed"
    /\ probe # <<"KeyError">>
    /\ seed' = probe
    /\ value' = Construct(probe).value
    /\ candidates' = Construct(probe).candidates
    /\ op' = "reconstruct"
    /\ UNCHANGED <<size, relOrder, fishOrder, cellOrder, pc, tix, passes,
                   changed, invoked, ret, probe>>

SeedNext == CalculateSeed \/ Reconstruct

SeedSpec == SeedInit /\ [][SeedNext]_vars

---------------------------------------------------------------------------
(* Sudoku.reset *)

\* "for cell, value in zip(self.cells, self.seed): cell.value = value", from
\* the cell of index c on: zip stops at the end of the shorter of the two
RECURSIVE reset_from(_, _, _)
reset_from(b, sd, c) ==
    IF c \in Cells /\ c + 1 <= Len(sd)
    THEN reset_from(value_setter(b, c, value_of_str(sd[c + 1])), sd, c + 1)
    ELSE b

reset(b, sd) == reset_from(b, sd, 0)

\* the seeds of a board that is reset: the explored seeds and their prefixes
ResetSeeds(sz) ==
    {SubSeq(sd, 1, n) : sd \in Seeds(sz),
                        n \in 0..(length_of(sz) * length_of(sz))}

ResetInit == \E sz \in SolverDims : \E sd \in ResetSeeds(sz) : Constructed(sz, sd)

\* the caller calls reset()
Reset ==
    /\ pc \in {"ready", "returned"}
    /\ value' = reset(board, seed).value
    /\ candidates' = reset(board, seed).candidates
    /\ op' = "reset"
    /\ pc' = "ready"
    /\ UNCHANGED <<size, seed, relOrder, fishOrder, cellOrder, tix, passes,
                   changed, invoked, ret, probe>>

\* the caller calls solve_singles, solve_subsets and reset() as it likes
ResetNext == CallSingles \/ CallSubsets \/ Reset

ResetSpec == ResetInit /\ [][ResetNext]_vars

---------------------------------------------------------------------------
(* Type correctness *)

TypeOK ==
    /\ value \in [Cells -> 0..MAX_CELL_VALUE]
    /\ candidates \in [Cells -> SUBSET ALL_CANDIDATES]
    /\ pc \in {"ready", "solving", "resolving", "returned"}
    /\ tix \in 1..(Len(techniques) + 1)
    /\ passes \in Nat
    /\ changed \in BOOLEAN
    /\ ret \in BOOLEAN

---------------------------------------------------------------------------
(* Complete valid grids: the reference the solver's deductions are judged by *)

\* the complete grids that extend g, the values of the first Len(g) cells:
\* no two cells of one row, column or box hold the same value
RECURSIVE GridsFrom(_, _)
GridsFrom(sz, g) ==
    IF Len(g) = length_of(sz) * length_of(sz) THEN {g}
    ELSE UNION {GridsFrom(sz, Append(g, v)) :
                v \in (1..length_of(sz))
                      \ {g[r + 1] : r \in {r \in UNION {Geometry[sz].related[Len(g)][rel] :
                                                        rel \in CellRelation} :
                                              r < Len(g)}}}

\* the value a seed gives a cell, None where it gives none
SeedValue(sd, c) == IF c + 1 <= Len(sd) THEN value_of_str(sd[c + 1]) ELSE None

\* the complete valid grids of every solver board, computed once
ValidGrids ==
    LET table == [sz \in SolverDims |-> GridsFrom(sz, <<>>)]
    IN  IF table = table THEN table ELSE table

\* the complete valid grids every explored seed agrees with, computed once
SolutionsOf ==
    LET table == [sz \in SolverDims |->
                     [sd \in Seeds(sz) |->
                         {g \in ValidGrids[sz] :
                             \A c \in 0..(Len(g) - 1) :
                                 SeedValue(sd, c) \in {None, g[c + 1]}}]]
    IN  IF table = table THEN table ELSE table

Solutions == SolutionsOf[size][seed]
Satisfiable == Solutions # {}

\* the cells solved since construction
SolvedSinceSeed == {c \in Cells : value[c] # None /\ SeedValue(seed, c) = None}

---------------------------------------------------------------------------
(* Claims *)

\* C1: soundness of every deduction. For every complete valid grid S the
\* seed agrees with, after any sequence of technique calls every solved cell
\* c holds S(c) and every unsolved cell c still has S(c) among its candidates.
C1_Sound ==
    \A S \in Solutions : \A c \in Cells :
        IF value[c] # None THEN value[c] = S[c + 1] ELSE S[c + 1] \in candidates[c]

\* the candidates and the unsolved cells of a board, counted
Measure(b) ==
    Cardinality({cv \in Cells \X ALL_CANDIDATES : cv[2] \in b.candidates[cv[1]]})
        + Cardinality({c \in Cells : b.value[c] = None})

\* C2: solve() terminates on every board, satisfiable or not. Every pass that
\* is followed by another pass has removed a candidate or solved a cell, so a
\* call of solve() never begins more passes than one more than what has been
\* removed from the constructed board; inside the loop the next step is
\* always one of the four techniques or the end of the pass.
C2_Terminates ==
    /\ \A constructed \in {Construct(seed)} :
           passes <= 1 + Measure(constructed) - Measure(board)
    /\ pc \in {"solving", "resolving"} => tix \in 1..(Len(techniques) + 1)

\* solve() has returned from its third pass or later on a contradictory seed
C2_Witness == pc = "returned" /\ ~Satisfiable /\ passes >= 3

\* C3: when solve() returns the board is a fixed point: no technique run on
\* the final board, and no second solve(), changes a value or a candidate set.
C3_FixedPoint ==
    [][(pc \in {"returned", "resolving"})
           => (value' = value /\ candidates' = candidates)]_vars

\* C4: monotonicity. Across a technique call no candidate set gains a value,
\* and a value once set never changes and is never cleared.
C4_Monotone ==
    [][\A c \in Cells :
           /\ candidates'[c] \subseteq candidates[c]
           /\ (value[c] # None => value'[c] = value[c])]_vars

\* solve_singles has solved a cell and then found nothing more to report on
\* the cells it visited afterwards
C4_Witness == op = "solve_singles" /\ ~ret /\ SolvedSinceSeed # {}

\* C5: candidate validity. In every state reachable by technique calls the
\* candidates of an unsolved cell are within 1..length and the candidates of
\* a solved cell are exactly its value, also after solve_wings has eliminated
\* from target cells that are not filtered to unsolved cells.
C5_CandidatesValid ==
    \A c \in Cells :
        IF value[c] = None
        THEN candidates[c] \subseteq 1..length
        ELSE candidates[c] = {value[c]}

\* an accepted wing of the board has a solved cell among its target cells
WingOverSolvedCell ==
    \E p \in Cells :
        /\ value[p] = None
        /\ Cardinality(candidates[p]) = 2
        /\ \E x \in wing_candidates(board, p), y \in wing_candidates(board, p) :
               /\ wing_accepted(board, p, <<x, y>>)
               /\ \E t \in target_cells_of(board,
                                           Technique(WING, 2, {}, ALL_RELATIONS),
                                           <<p, x, y>>) :
                      value[t] # None

\* solve_wings has run and changed a board on which such a wing stands
C5_Witness == op = "solve_wings" /\ ret /\ WingOverSolvedCell

\* the solved cells of a group hold pairwise distinct values
DistinctIn(grp) ==
    \A i \in DOMAIN grp : \A j \in DOMAIN grp :
        (i # j /\ value[grp[i]] # None) => value[grp[i]] # value[grp[j]]

\* C6: uniqueness within group. For a satisfiable seed, once solve() has
\* returned, the solved cells of every row, column and box hold pairwise
\* distinct values.
C6_UniqueInGroup ==
    (pc = "returned" /\ Satisfiable)
        => \A i \in 1..length :
               DistinctIn(rows[i]) /\ DistinctIn(columns[i]) /\ DistinctIn(boxes[i])

\* solve() has returned on a satisfiable seed after solving two cells of one row
C6_Witness ==
    /\ pc = "returned"
    /\ Satisfiable
    /\ \E i \in 1..length : Cardinality(Range(rows[i]) \cap SolvedSinceSeed) >= 2


\* a grouping is a partition of the cells into length groups of length cells
IsPartition(groups) ==
    /\ Len(groups) = length
    /\ \A i \in DOMAIN groups :
           Len(groups[i]) = length /\ Cardinality(Range(groups[i])) = length
    /\ UNION {Range(groups[i]) : i \in DOMAIN groups} = Cells
    /\ \A i \in DOMAIN groups : \A j \in DOMAIN groups :
           i # j => Range(groups[i]) \cap Range(groups[j]) = {}

\* C7: partition invariant. For every box Dimension, square or not, rows,
\* columns and boxes each partition the length^2 cells into length groups of
\* length cells; row y holds the cells of location.y = y and column x the
\* cells of location.x = x.
C7_Partition ==
    /\ IsPartition(rows)
    /\ IsPartition(columns)
    /\ IsPartition(boxes)
    /\ \A i \in 1..length : \A k \in 1..length :
           /\ CellLocation(rows[i][k]).y = i - 1
           /\ CellLocation(columns[i][k]).x = i - 1

\* the last box of a board whose boxes are not square has been looked up
C7_Witness ==
    /\ size.width # size.height
    /\ op = "box"
    /\ probe[1] = Point(size.width - 1, size.height - 1)
    /\ Len(probe[2]) = length

\* C8: box assignment matches box lookup. A cell at (x, y) has box
\* (x div height, y div width) and is a member of the box looked up there;
\* every cell of the box looked up at p has box p; with Dimension(2, 4) the
\* cell at (3, 5) is in box (0, 2).
C8_BoxLookup ==
    /\ op = "cell" =>
           /\ probe[2] = Point(probe[1].x \div size.height,
                               probe[1].y \div size.width)
           /\ cell(size, probe[1]) \in Range(probe[3])
    /\ op = "box" =>
           /\ probe[2] # <<>>
           /\ \A i \in DOMAIN probe[2] : CellBox(probe[2][i]) = probe[1]
    /\ (size = Dimension(2, 4) /\ op = "cell" /\ probe[1] = Point(3, 5))
           => probe[2] = Point(0, 2)

\* the cell at (3, 5) of a Dimension(2, 4) board has been looked up
C8_Witness ==
    /\ size = Dimension(2, 4)
    /\ op = "cell"
    /\ probe[1] = Point(3, 5)
    /\ probe[2] = Point(0, 2)
    /\ cell(size, Point(3, 5)) \in Range(probe[3])

\* C9 as stated: every pass of solve() invokes all four techniques, also when
\* an earlier technique of the pass has already reported a change.
C9_AllFour ==
    (pc \in {"solving", "resolving"} /\ tix > Len(techniques))
        => invoked = techniques

\* C9 amended: a pass invokes the techniques in the fixed order Singles,
\* Subsets, Fish, Wings until one of them reports a change and skips the
\* techniques after it; another pass follows iff the pass reported a change,
\* otherwise the loop stops.
C9_UntilChange ==
    [][(pc \in {"solving", "resolving"}) =>
           /\ invoked' = SubSeq(techniques, 1, Len(invoked'))
           /\ (tix <= Len(techniques) /\ changed) =>
                  (invoked' = invoked /\ changed')
           /\ (tix <= Len(techniques) /\ ~changed) =>
                  /\ invoked' = Append(invoked, techniques[tix])
                  /\ Len(invoked') = tix
                  /\ changed' = ret'
           /\ (tix > Len(techniques) /\ changed) =>
                  (pc' = pc /\ tix' = 1 /\ invoked' = <<>> /\ ~changed')
           /\ (tix > Len(techniques) /\ ~changed) =>
                  (pc' = "returned" /\ invoked = techniques)]_vars

\* a pass has ended in which solve_subsets reported a change and solve_fish
\* and solve_wings were not invoked
C9_Witness ==
    /\ pc = "solving"
    /\ tix > Len(techniques)
    /\ changed
    /\ invoked = <<"solve_singles", "solve_subsets">>

\* C10: solve_singles returns True if and only if at least one cell was
\* assigned a value during the call.
C10_ReturnsAssigned ==
    [][op' = "solve_singles" =>
           (ret' <=> \E c \in Cells : value[c] = None /\ value'[c] # None)]_vars


\* the cells whose candidates the step changes
Eliminated == {c \in Cells : candidates'[c] # candidates[c]}

\* C11: solve_fish returns True if and only if at least one candidate was
\* eliminated from some cell during the call, also when the eliminations were
\* made for the first base relation and the second has fewer than 2
\* qualifying lines.
C11_FishReturnsEliminated ==
    [][op' = "solve_fish" => (ret' <=> Eliminated # {})]_vars

\* solve_fish has eliminated and returned True, and on the board it leaves
\* both base relations have at least 2 qualifying lines
C11_Witness ==
    /\ op = "solve_fish"
    /\ ret
    /\ \A relation \in {ROW, COLUMN} : Len(group_sets_of(board, relation)) >= 2

\* C12: solve_wings returns True if and only if at least one candidate was
\* eliminated from some cell during the call, over all pivots and all wing
\* pairs processed.
C12_WingsReturnsEliminated ==
    [][op' = "solve_wings" => (ret' <=> Eliminated # {})]_vars

\* C13: solve_subsets returns True if and only if at least one cell's
\* candidate set changed during the call.
C13_SubsetsReturnsChanged ==
    [][op' = "solve_subsets" => (ret' <=> Eliminated # {})]_vars

\* solve_subsets has changed the board built from a satisfiable seed and
\* returned True
C13_Witness == op = "solve_subsets" /\ ret /\ Satisfiable


\* two different cells share a row, a column or a box
SameGroup(c, d) ==
    /\ c # d
    /\ \/ CellLocation(c).x = CellLocation(d).x
       \/ CellLocation(c).y = CellLocation(d).y
       \/ CellBox(c) = CellBox(d)

\* the values of the cells of valued that share a group with c
PeerValues(c, valued) == {value[d] : d \in {d \in valued : SameGroup(c, d)}}

\* C14: after construction every empty cell's candidates are 1..length minus
\* the values of the valued cells of its box, row and column, and every cell
\* holds the value its seed character gives.
C14_Populated ==
    op = "construct" =>
        \A valued \in {{d \in Cells : value[d] # None}} :
            \A c \in Cells :
                /\ value[c] = SeedValue(seed, c)
                /\ value[c] = None =>
                       candidates[c] = (1..length) \ PeerValues(c, valued)

\* a board has been constructed on which an empty cell has lost a candidate
\* to a cell of its box that is in neither its row nor its column
C14_Witness ==
    /\ op = "construct"
    /\ \E c \in Cells, d \in Cells :
           /\ value[c] = None
           /\ value[d] # None
           /\ CellBox(c) = CellBox(d)
           /\ CellLocation(c).x # CellLocation(d).x
           /\ CellLocation(c).y # CellLocation(d).y
           /\ value[d] \notin candidates[c]
           /\ \A e \in Cells \ {d} : SameGroup(c, e) => value[e] # value[d]


\* construction has produced a board
BoardBuilt == DOMAIN value # {}

\* the documented seed alphabet, and the value each of its characters stands
\* for: None for an empty marker, the digit, or 10 + the offset from "A"
AcceptedCharacters ==
    {".", "0", " "} \cup (Range(Digits) \ {"0"}) \cup Range(Uppers) \cup Range(Lowers)
Decoded(ch) ==
    IF ch \in {".", "0", " "} THEN None
    ELSE IF ch \in Range(Digits) THEN IndexIn(Digits, ch) - 1
    ELSE IF ch \in Range(Uppers) THEN 9 + IndexIn(Uppers, ch)
    ELSE 9 + IndexIn(Lowers, ch)

\* C15: seed length validation. Constructing a board from a seed whose
\* length is not length^2 for the Dimension in force fails at construction
\* instead of producing a board.
C15_LengthValidated == Len(seed) # length * length => ~BoardBuilt

\* C16: seed alphabet validation. A seed with a character outside the
\* documented alphabet, or with a letter whose value exceeds the board
\* length, is rejected at construction: a board is built only from seeds
\* whose characters are all accepted and stand for no value beyond length.
C16_AlphabetValidated ==
    BoardBuilt =>
        \A i \in 1..Len(seed) :
            /\ seed[i] \in AcceptedCharacters
            /\ Decoded(seed[i]) \in {None} \cup (1..length)

\* C17: seed decoding. At construction the i-th seed character sets the cell
\* at (i mod length, i div length): a digit gives that digit, a letter gives
\* 10 + its offset from "A" whatever its case, ".", "0" and space give an
\* empty cell, and the cells beyond the end of a short seed are empty.
C17_Decoded ==
    op = "construct" =>
        /\ \A i \in 0..(length * length - 1) :
               \A c \in {cell(size, Point(i % length, i \div length))} :
                   /\ i >= Len(seed) => value[c] = None
                   /\ (i < Len(seed) /\ seed[i + 1] \in AcceptedCharacters)
                          => value[c] = Decoded(seed[i + 1])
        /\ Decoded("A") = 10 /\ Decoded("a") = 10 /\ Decoded("G") = 16

\* a 16 x 16 board has been constructed from the short seed "aG"
C17_Witness ==
    /\ op = "construct"
    /\ size = Dimension(4, 4)
    /\ seed = <<"a", "G">>
    /\ value[0] = 10
    /\ value[1] = 16
    /\ value[2] = None

\* a seed over the accepted alphabet with values within 1..length that is no
\* longer than the board
WellFormed(sd) ==
    /\ Len(sd) <= length * length
    /\ \A i \in 1..Len(sd) :
           /\ sd[i] \in AcceptedCharacters
           /\ Decoded(sd[i]) \in {None} \cup (1..length)

\* the seed with every empty marker and the missing tail written as ".",
\* every digit unchanged and every letter upper-cased
Normalised(sd) ==
    [i \in 1..(length * length) |->
        IF i > Len(sd) \/ sd[i] \in {".", "0", " "} THEN "."
        ELSE IF sd[i] \in Range(Lowers) THEN Uppers[IndexIn(Lowers, sd[i])]
        ELSE sd[i]]

\* C18: round trip. For a well-formed seed, calculate_seed() on the freshly
\* constructed board returns the normalised seed, and the board constructed
\* from that result has the same cell values.
C18_RoundTrip ==
    [][WellFormed(seed) =>
           /\ op' = "calculate_seed" => probe' = Normalised(seed)
           /\ op' = "reconstruct" => value' = value]_vars

\* calculate_seed() has been called on the 16 x 16 board built from "a0"
C18_Witness ==
    /\ op = "calculate_seed"
    /\ size = Dimension(4, 4)
    /\ seed = <<"a", "0">>
    /\ Len(probe) = 256
    /\ probe[1] = "A"
    /\ probe[2] = "."
    /\ probe[3] = "."


\* the iteration orders the terminal boards are compared with
ReferenceOrders ==
    [rel |-> <<BOX, ROW, COLUMN>>, fish |-> <<ROW, COLUMN>>, cell |-> <<"asc">>]

\* C19: determinism. For a given seed and Dimension the board solve() leaves,
\* every cell's value and candidates, is the same for every iteration order
\* of the relation sets and of the sets of related cells: it is the board
\* solve() leaves under the reference orders.
C19_Deterministic ==
    pc = "returned" =>
        \A constructed \in {Construct(seed)} :
            board = solve(constructed, ReferenceOrders)

\* the unsolved cells of the board that have no candidate
Contradicted(vals, cands) ==
    {c \in DOMAIN vals : vals[c] = None /\ cands[c] = NO_CANDIDATES}

\* C20: a contradiction is not a hard fault. Whatever solve() or a technique
\* does on a board where an unsolved cell has no candidate, it leaves that
\* cell unsolved and without candidates: the cell is never assigned a value,
\* and it is still empty with zero candidates when solve() has returned.
C20_ContradictionKept ==
    [][Contradicted(value, candidates) \subseteq Contradicted(value', candidates')]_vars

\* solve() has returned, after a pass that changed the board, with an unsolved
\* cell that has had no candidate since the board was constructed and another
\* that had candidates then and has none now
C20_Witness ==
    /\ pc = "returned"
    /\ passes >= 2
    /\ \E c \in Contradicted(value, candidates) :
           Construct(seed).candidates[c] # NO_CANDIDATES
    /\ \E c \in Contradicted(value, candidates) :
           Construct(seed).candidates[c] = NO_CANDIDATES


\* the values an accepted fish eliminates: those common to its cells that no
\* other unsolved cell of its base lines has
FishValues(b, relation, fish) ==
    CommonCandidates(b, Range(fish.cells))
        \ CandidatesOf(b, fish_others(b, relation, fish.cells))

\* the unsolved cells on the cover lines of a fish that are not of the fish
FishTargets(b, relation, fish) ==
    target_cells_of(b, Technique(FISH, fish.size, {relation},
                                 {IF relation = COLUMN THEN ROW ELSE COLUMN}),
                    fish.cells)

\* the fish accepted on the board in one base relation, with something to
\* eliminate on their cover lines
PendingFish(b, relation) ==
    {fish \in Range(fishes_of(b, relation, group_sets_of(b, relation))) :
        \E t \in FishTargets(b, relation, fish) :
            b.candidates[t] \cap FishValues(b, relation, fish) # {}}

PeersEliminated(b) ==
    \A c \in {c \in Cells : b.value[c] = None} :
        \A d \in related_set(c, ALL_RELATIONS) :
            b.value[d] \notin b.candidates[c]

\* the board solve_singles has made when it has examined the first k unsolved
\* cells of board b, iterating ALL_RELATIONS in the order rels
SinglesAfter(b, k, rels) ==
    singles_cells([b |-> b, changed |-> FALSE],
                  SubSeq(Unsolved(b, range(0, length * length)), 1, k), rels).b

\* C22: the peer-elimination invariant. In every state reachable from
\* construction no unsolved cell has among its candidates the value of a solved
\* cell of its box, row or column; and inside solve_singles that holds each
\* time a cell has been examined, before the next cell is: a value assigned
\* to a cell is by then gone from every unsolved cell of its box, row and column.
C22_PeersEliminated ==
    [][/\ PeersEliminated(board)
       /\ PeersEliminated(board')
       /\ op' = "solve_singles" =>
              \A k \in 1..Cardinality({c \in Cells : value[c] = None}) :
                  \A after \in {SinglesAfter(board, k, relOrder')} :
                      PeersEliminated(after)]_vars

\* solve_singles has solved a cell that has an unsolved cell in its box, row
\* or column
C22_Witness ==
    /\ op = "solve_singles"
    /\ \E c \in SolvedSinceSeed :
           \E d \in related_set(c, ALL_RELATIONS) : value[d] = None


\* target: the candidates of a combination of cells of a group that no other
\* unsolved cell of the group has
SubsetTarget(b, grp, subset) ==
    CandidatesOf(b, Range(subset)) \ CandidatesOf(b, Range(grp) \ Range(subset))

\* the unsolved cells of the relation of the combination that are outside it
SecondaryPeers(b, relation, subset) ==
    {rc \in UNION {related_set(c, {relation}) : c \in Range(subset)} :
        b.value[rc] = None /\ rc \notin Range(subset)}

\* C23: locked elimination. When solve_subsets has run on a board that agrees
\* with a solution of its seed, for every combination of k cells it enumerated
\* in a group whose target was not empty, of size k or less, and whose cells
\* all lie in one extra relation, no unsolved cell of that relation outside
\* the combination holds a target value.
C23_LockedEliminated ==
    [][(op' = "solve_subsets" /\ Satisfiable /\ C1_Sound) =>
          \A relation \in CellRelation :
              \A grp \in Range(cell_groups_of(board, relation)) :
                  \A subset \in Range(subsets_of_group(grp)) :
                      \A target \in {SubsetTarget(board, grp, subset)} :
                          (/\ target # {}
                           /\ Cardinality(target) <= Len(subset)
                           /\ locked_relation(relation, subset) # "none")
                          => \A rc \in SecondaryPeers(
                                           board,
                                           locked_relation(relation, subset),
                                           subset) :
                                 candidates'[rc] \cap target = {}]_vars


\* the combinations solve_subsets enumerates on the board: a relation, a group
\* of it restricted to its unsolved cells, and k cells of the group with
\* 2 <= k <= len(group) - 2
SubsetCombinations(b) ==
    UNION {UNION {{[relation |-> relation, cells |-> grp, subset |-> subset] :
                      subset \in Range(subsets_of_group(grp))} :
                  grp \in Range(cell_groups_of(b, relation))} :
           relation \in CellRelation}

\* the combinations of the board that are naked or hidden subsets:
\* |target| == k
ExactSubsets(b) ==
    {x \in SubsetCombinations(b) :
        Cardinality(SubsetTarget(b, x.cells, x.subset)) = Len(x.subset)}

\* C24: naked and hidden subsets collapse. For every combination of k unsolved
\* cells of a group with |target| == k, once solve_subsets has processed the
\* combination every cell of it has its candidates inside target, and no
\* unsolved cell of the group outside the combination holds a target value.
C24_SubsetCollapsed ==
    \A x \in ExactSubsets(board) :
        \A target \in {SubsetTarget(board, x.cells, x.subset)} :
            \A after \in {subsets_subset([b |-> board, changed |-> FALSE],
                                         x.relation, x.cells, x.subset).b} :
                /\ \A c \in Range(x.subset) : after.candidates[c] \subseteq target
                /\ \A c \in Range(x.cells) \ Range(x.subset) :
                       after.candidates[c] \cap target = {}

\* solve_subsets, called on the constructed board, has collapsed the cells of
\* a hidden subset: they had candidates outside target and have none now
C24_Witness ==
    /\ op = "solve_subsets"
    /\ ret
    /\ \A constructed \in {Construct(seed)} :
           /\ board = solve_subsets(constructed, relOrder).b
           /\ \E x \in ExactSubsets(constructed) :
                  \A target \in {SubsetTarget(constructed, x.cells, x.subset)} :
                      /\ \E c \in Range(x.subset) :
                             ~(constructed.candidates[c] \subseteq target)
                      /\ \A c \in Range(x.subset) :
                             candidates[c] \subseteq target

\* C25: the candidate-elimination primitive. Applied to a collection of cells
\* and a set of values it subtracts the values from exactly the unsolved cells
\* of the collection whose candidates intersect the values, leaves solved
\* cells and the other cells as they are, and reports a change exactly when
\* the candidates of some cell have changed.
C25_EliminationFrame ==
    [][op' = "modify_cell_candidates" =>
          /\ value' = value
          /\ \A c \in Cells :
                 candidates'[c] =
                     IF /\ c \in probe'[1]
                        /\ value[c] = None
                        /\ candidates[c] \cap probe'[2] # {}
                     THEN candidates[c] \ probe'[2]
                     ELSE candidates[c]
          /\ ret' <=> candidates' # candidates]_vars


\* the coordinate of a cell along the base axis: its row for a row fish
base_coordinate(relation, c) ==
    IF relation = ROW THEN CellLocation(c).y ELSE CellLocation(c).x

\* the fish solve_fish accepts on the board in one base relation
AcceptedFish(b, relation) ==
    Range(fishes_of(b, relation, group_sets_of(b, relation)))

\* the unsolved cells on the cover lines of the fish that are not of the fish
OnCoverLines(b, relation, fish) ==
    {c \in Cells :
        /\ b.value[c] = None
        /\ c \notin Range(fish.cells)
        /\ cover_coordinate(relation, c)
               \in {cover_coordinate(relation, fc) : fc \in Range(fish.cells)}}

\* C26: the shape and the frame of a fish. Every fish of size n that solve_fish
\* accepts has its cells on n distinct base lines and on exactly n distinct
\* cover lines, and applying it changes the candidates of unsolved cells on
\* those cover lines outside the fish only: every value, and the candidates of
\* the fish cells, the solved cells and the cells off the cover lines, stay.
C26_FishFrame ==
    \A relation \in {ROW, COLUMN} :
        \A fish \in AcceptedFish(board, relation) :
            /\ Cardinality({base_coordinate(relation, c) : c \in Range(fish.cells)})
                   = fish.size
            /\ Cardinality({cover_coordinate(relation, c) : c \in Range(fish.cells)})
                   = fish.size
            /\ \A after \in {fish_apply([b |-> board, changed |-> FALSE,
                                         returned |-> FALSE], relation, fish).b} :
                   /\ after.value = value
                   /\ \A c \in Cells \ OnCoverLines(board, relation, fish) :
                          after.candidates[c] = candidates[c]

\* solve_fish, called on the constructed board, has applied a fish the board
\* held: a cell on its cover lines has lost a candidate
C26_Witness ==
    /\ op = "solve_fish"
    /\ ret
    /\ \A constructed \in {Construct(seed)} :
           /\ board = solve_fish(constructed, fishOrder).b
           /\ \E relation \in {ROW, COLUMN} :
                  \E fish \in AcceptedFish(constructed, relation) :
                      \E c \in OnCoverLines(constructed, relation, fish) :
                          candidates[c] # constructed.candidates[c]



---------------------------------------------------------------------------
(* C27: the shape and the frame of an XY-Wing *)

\* the wings accepted for pivot_cell on the board of st, in the order the
\* code applies them
wings_of(st, pivot_cell, order) ==
    SelectSeq(combinations(ListOfCells(order, wing_candidates(st.b, pivot_cell)), 2),
              LAMBDA wc : wing_accepted(st.b, pivot_cell, wc))

\* one record per wing of pivot_cell: the board it was accepted on, the
\* board it is applied to and the board its application leaves
RECURSIVE WingRecords(_, _, _, _)
WingRecords(st, accepted_on, pivot_cell, wings) ==
    IF wings = <<>>
    THEN {}
    ELSE LET next == wings_wing(st, pivot_cell, Head(wings))
         IN  {[accepted_on |-> accepted_on, applied_to |-> st.b, left |-> next.b,
               pivot |-> pivot_cell, wing |-> Head(wings)]}
             \cup WingRecords(next, accepted_on, pivot_cell, Tail(wings))

\* the records of the wings of the pivots still to visit
RECURSIVE PivotRecords(_, _, _)
PivotRecords(st, pivots, order) ==
    IF pivots = <<>>
    THEN {}
    ELSE WingRecords(st, st.b, Head(pivots), wings_of(st, Head(pivots), order))
         \cup PivotRecords(wings_pivot(st, Head(pivots), order), Tail(pivots), order)

\* the records of every wing one call of solve_wings on the board b accepts
SolveWingsRecords(b, order) ==
    PivotRecords([b |-> b, changed |-> FALSE],
                 FilterIn(range(0, length * length),
                          {c \in Cells : b.value[c] = None
                                         /\ Cardinality(b.candidates[c]) = 2}),
                 order)

\* the candidates the wings of the record r share at acceptance
SharedOfWings(r) ==
    r.accepted_on.candidates[r.wing[1]] \cap r.accepted_on.candidates[r.wing[2]]

\* at acceptance the wings share exactly one candidate, not held by the pivot
WingShape(r) ==
    /\ Cardinality(SharedOfWings(r)) = 1
    /\ SharedOfWings(r) \cap r.accepted_on.candidates[r.pivot] = {}

\* the application removes only the shared value, only from cells related to
\* both wings, and never from the pivot or a wing
WingFrame(r) ==
    /\ r.left.value = r.applied_to.value
    /\ \A c \in Cells :
           /\ r.left.candidates[c] \subseteq r.applied_to.candidates[c]
           /\ r.applied_to.candidates[c] \ r.left.candidates[c]
                  \subseteq SharedOfWings(r)
           /\ r.left.candidates[c] # r.applied_to.candidates[c]
                  => /\ is_related(c, r.wing[1])
                     /\ is_related(c, r.wing[2])
                     /\ c \notin {r.pivot, r.wing[1], r.wing[2]}

\* C27: every (pivot, wing, wing) a call of solve_wings accepts has, at
\* acceptance, wings sharing exactly one candidate, which is not a candidate
\* of the pivot, and applying it removes only that value, only from cells
\* related to both wings, and changes neither the pivot nor a wing
C27_WingShapeAndFrame ==
    [][op' = "solve_wings"
           => \A r \in SolveWingsRecords(board, cellOrder') :
                  WingShape(r) /\ WingFrame(r)]_vars


---------------------------------------------------------------------------
(* C28: is_same_row, is_same_column, is_same_box *)

\* every two cells of the list have the same row, the same column, the same box
ShareRow(cells) ==
    \A i \in DOMAIN cells, j \in DOMAIN cells :
        CellLocation(cells[i]).y = CellLocation(cells[j]).y
ShareColumn(cells) ==
    \A i \in DOMAIN cells, j \in DOMAIN cells :
        CellLocation(cells[i]).x = CellLocation(cells[j]).x
ShareBox(cells) ==
    \A i \in DOMAIN cells, j \in DOMAIN cells : CellBox(cells[i]) = CellBox(cells[j])

\* C28: is_same_row, is_same_column and is_same_box are each true exactly
\* when all the cells share the row, the column, the box, and all three are
\* true for the empty list
C28_SameCoordinate ==
    op = "is_same" =>
        /\ probe[2] <=> ShareRow(probe[1])
        /\ probe[3] <=> ShareColumn(probe[1])
        /\ probe[4] <=> ShareBox(probe[1])
        /\ probe[1] = <<>> => probe[2] /\ probe[3] /\ probe[4]


---------------------------------------------------------------------------
(* C29: reset() *)

\* C29: reset() after any sequence of technique calls leaves every cell of
\* the board, the cells beyond the end of a short seed included, with the
\* value it had right after construction
C29_ResetToSeed ==
    [][op' = "reset" =>
           \A built \in {Construct(seed)} : value' = built.value]_vars


---------------------------------------------------------------------------
(* C30: the location label round trip *)

\* the label made of the letter of the column and the number of the row of c
ColumnLetterRowNumber(c) ==
    <<Uppers[CellLocation(c).x + 1]>> \o format_int(CellLocation(c).y + 1)

\* C30: the default location label of every cell is its column letter
\* followed by its row number (the cell at x = 2, y = 3 is "C4"), and
\* Sudoku.cell of the label is that cell
C30_LabelRoundTrip ==
    op = "var_to_string" =>
        /\ probe[2] = ColumnLetterRowNumber(probe[1])
        /\ CellLocation(probe[1]) = Point(2, 3) => probe[2] = <<"C", "4">>
        /\ probe[3] = probe[1]

=============================================================================
